---- MODULE Spec2Model ----
(***************************************************************************)
(* The project execution state machine of ProjectManagerAgent              *)
(* (src/agents/project_manager.py) with the planner's task breakdown      *)
(* (src/agents/planner.py), the reviewer's verdict                         *)
(* (src/agents/reviewer.py) and the project storage                        *)
(* (src/utils/storage.py).                                                 *)
(*                                                                         *)
(* Abstractions:                                                           *)
(*  - a task title is kept as the one thing the manager reads from it:     *)
(*    whether 'setup' occurs in title.lower() (field setup);               *)
(*  - progress_percentage is the exact rational (n / d) * 100, kept as the *)
(*    record [n, d]; 0.0 is [n |-> 0, d |-> 1];                            *)
(*  - timestamps are "None" or "set";                                      *)
(*  - error messages are kept by their fixed prefix.                       *)
(*  - the calls of one execute_project are steps: one per phase entry and  *)
(*    one per task of a phase loop; the manager is single-threaded, so at  *)
(*    most one call is in flight (pc, cur, idx);                           *)
(*  - the backend answers the breakdown prompt alike throughout one        *)
(*    behaviour (breakdown), and the manager is built with or without the  *)
(*    remote tracker (use_github);                                         *)
(*  - callFrom, statusLog, phaseLog and lastOp are history variables: they *)
(*    record what the latest call wrote and what the last operation        *)
(*    returned, and no operation reads them; so are taskLog (the tasks the *)
(*    phase loops of the latest call came to) and tracked, evaluated and   *)
(*    review (what the step just taken got from the tracker, from          *)
(*    evaluate and from _fix_code_issues; the last two are recorded in     *)
(*    SpecReview);                                                         *)
(*  - the reviewer builds its report check by check (test_results) in      *)
(*    SpecReviewer; a step of the manager keeps the verdict on the report. *)
(*  - a JSON value and a Python value are records of one field that names *)
(*    the type, so that json.dump and json.load change what they change;   *)
(*    an estimate that is a JSON string sits under estimated_hours_text,   *)
(*    and a plan never holds one, as sum() raises on it (PlanRaises);      *)
(*  - the storage (src/utils/storage.py) is the map files with the history *)
(*    variables saves and loaded, in SpecStorage; delete_project's backup  *)
(*    copy is left out;                                                    *)
(*  - SpecPair runs the manager with two project ids, SpecPlanner the      *)
(*    planner over answers with estimates, bare objects and scalars.       *)
(***************************************************************************)
EXTENDS Integers, Sequences, FiniteSets, TLC

\* ---------------------------------------------------------------- bounds
MaxTasks == 2      \* longest task list the backend's JSON array holds
MaxExecs == 2      \* execute_project calls on one project since its creation
MaxTrackedTasks == 1   \* longest such list when the remote tracker is enabled
MaxHours == 9      \* largest estimated_hours of a task in the JSON array

\* ------------------------------------------------------------- data model
Agents == {"planner", "coder", "reviewer", "doc_agent"}

\* The agents and dependency lists of the tasks in the backend's JSON
\* array; the fallback plan carries a planner and a doc_agent task.  A task
\* 1 that depends on task 1 never becomes eligible, as one that depends on
\* an id outside the plan.
BreakdownAgents == {"coder", "reviewer"}

DepChoices == {<<>>, <<1>>}

NoProject == "none"

SpecIds == {"p1"}

Range(s) == {s[i] : i \in 1..Len(s)}

Min(S) == CHOOSE x \in S : \A y \in S : x <= y

\* One element of the JSON array the backend returns for the breakdown.
TaskData == [setup : BOOLEAN, agent : BreakdownAgents, dependencies : DepChoices]

TaskDataSeqs == UNION {[1..n -> TaskData] : n \in 0..MaxTasks}

\* The backend's answer to the breakdown prompt: unparseable text, or a
\* JSON array.
Responses ==
    {[parsed |-> FALSE, data |-> <<>>]}
        \cup {[parsed |-> TRUE, data |-> d] : d \in TaskDataSeqs}

\* estimated_hours is kept in whole hours.
Task(id, setup, agent, dependencies, estimated_hours) ==
    [id |-> id, setup |-> setup, agent |-> agent, dependencies |-> dependencies,
     estimated_hours |-> estimated_hours]

FallbackTasks ==
    << Task(1, TRUE, "planner", <<>>, 4),
       Task(2, FALSE, "coder", <<1>>, 16),
       Task(3, FALSE, "reviewer", <<2>>, 8),
       Task(4, FALSE, "doc_agent", <<3>>, 6) >>

\* task.get('estimated_hours', 2.0)
DefaultHours == 2

\* dict.get: the value under the key, the default where the key is absent.
Get(task, key, default) == IF key \in DOMAIN task THEN task[key] ELSE default

\* An element of the JSON array is an object (a record of the keys it
\* carries) or another JSON value, kept as [scalar |-> value]; only an object
\* has .get.
IsObject(task) == "scalar" \notin DOMAIN task

\* An estimate that is not a number (a JSON string such as "8") is kept under
\* estimated_hours_text; a numeric one under estimated_hours.
Estimate(task) ==
    IF "estimated_hours_text" \in DOMAIN task
    THEN task.estimated_hours_text
    ELSE Get(task, "estimated_hours", DefaultHours)

\* The answer holds a bracket pair, json.loads accepts the text between and
\* every element of the array has .get.
GivesTaskList(response) ==
    /\ response.parsed
    /\ \A i \in 1..Len(response.data) : IsObject(response.data[i])

\* Mutant of create_task_breakdown: an answer that gives no task list gives
\* an empty plan.
create_task_breakdown_NoFallback(response) ==
    IF GivesTaskList(response)
    THEN [i \in 1..Len(response.data) |->
             Task(i, Get(response.data[i], "setup", FALSE),
                  Get(response.data[i], "agent", "coder"),
                  Get(response.data[i], "dependencies", <<>>),
                  Estimate(response.data[i]))]
    ELSE <<>>

\* The array's elements become tasks 1, 2, ... with the defaults of .get for
\* the keys an element lacks; a missing title ('Task i') names no setup.
\* Text without a bracket pair, text json.loads rejects and an element
\* without .get all end in the fallback.
create_task_breakdown(response) ==
    IF GivesTaskList(response)
    THEN [i \in 1..Len(response.data) |->
             Task(i, Get(response.data[i], "setup", FALSE),
                  Get(response.data[i], "agent", "coder"),
                  Get(response.data[i], "dependencies", <<>>),
                  Estimate(response.data[i]))]
    ELSE FallbackTasks

\* sum() adds the estimates to 0: an estimate that is not a number raises
\* TypeError, which plan does not catch.
PlanRaises(response) ==
    /\ GivesTaskList(response)
    /\ \E i \in 1..Len(response.data) :
           "estimated_hours_text" \in DOMAIN response.data[i]

\* Mutant of SumHours: the sum starts after the first task.
RECURSIVE SumHours_FromSecond(_)
SumHours_FromSecond(tasks) ==
    IF Len(tasks) <= 1 THEN 0
    ELSE tasks[2].estimated_hours + SumHours_FromSecond(Tail(tasks))

\* sum(task.estimated_hours for task in tasks)
RECURSIVE SumHours(_)
SumHours(tasks) ==
    IF tasks = <<>> THEN 0
    ELSE tasks[1].estimated_hours + SumHours(Tail(tasks))

Max(a, b) == IF a >= b THEN a ELSE b

HoursPerDay == 8

\* plan: int() of a quotient that is not negative drops its fraction.
plan(response) ==
    LET tasks == create_task_breakdown(response)
        total_hours == SumHours(tasks)
    IN  [tasks |-> tasks,
         total_estimated_hours |-> total_hours,
         timeline_days |-> Max(1, total_hours \div HoursPerDay)]

ZeroProgress == [n |-> 0, d |-> 1]

\* ProjectStatus as create_project initialises it.
NewStatus ==
    [status |-> "planning",
     progress_percentage |-> ZeroProgress,
     current_task |-> [text |-> "Project planning completed", task |-> 0],
     completed_tasks |-> <<>>,
     failed_tasks |-> <<>>,
     actual_completion |-> "None",
     errors |-> <<>>,
     warnings |-> <<>>,
     github_repo_name |-> "None"]

\* ------------------------------------------------------------- variables
VARIABLES
    use_github,       \* self.use_github and self.github_manager
    breakdown,        \* the backend's answer to the breakdown prompt
    active_projects,  \* project id -> ProjectStatus
    project_plans,    \* project id -> ProjectPlan
    pc,               \* position of the execute_project call in flight
    cur,              \* the project id of the call in flight
    idx,              \* index into the current phase's task list
    calls,            \* project id -> execute_project calls since creation
    callFrom,         \* the status the latest call found on entry
    statusLog,        \* status values written by the latest call, in order
    phaseLog,         \* phase procedures invoked by the latest call
    lastOp,           \* the public operation that returned last, its result
    taskLog,          \* tasks the phase loops of the latest call came to
    tracked,          \* what the tracker did in the step just taken
    evaluated,        \* what evaluate returned in the step just taken
    review,           \* the remediation of the step just taken
    test_results,     \* the report lint_and_test is building
    planned,          \* the ProjectPlan PlannerAgent.plan returned last
    files,            \* data/projects: project id -> content of <id>.json
    saves,            \* project id -> its latest save_project call
    loaded            \* the load_project call that returned just now

vars == <<use_github, breakdown, active_projects, project_plans, pc, cur, idx,
          calls, callFrom, statusLog, phaseLog, lastOp, taskLog, tracked,
          evaluated, review, test_results, planned, files, saves, loaded>>

storageVars == <<files, saves, loaded>>

\* A value that may be absent is a sequence of no or one element.
NoVerdict == <<>>

NoReview == <<>>

NoPlan == <<>>

EmptyMap == [x \in {} |-> 0]

NotLoaded == [project_id |-> NoProject, result |-> <<>>]

Put(f, k, v) == [x \in DOMAIN f \cup {k} |-> IF x = k THEN v ELSE f[x]]

Remove(f, k) == [x \in DOMAIN f \ {k} |-> f[x]]

\* The state after construction, for a backend that answers the breakdown
\* prompt with one of `responses`.
Start(responses) ==
    /\ use_github \in BOOLEAN
    /\ breakdown \in responses
    /\ use_github => Len(breakdown.data) <= MaxTrackedTasks
    /\ active_projects = EmptyMap
    /\ project_plans = EmptyMap
    /\ pc = "idle"
    /\ cur = NoProject
    /\ idx = 0
    /\ calls = EmptyMap
    /\ callFrom = "None"
    /\ statusLog = <<>>
    /\ phaseLog = <<>>
    /\ lastOp = [op |-> "init", pid |-> NoProject, result |-> "None"]
    /\ taskLog = <<>>
    /\ tracked = "not called"
    /\ evaluated = NoVerdict
    /\ review = NoReview
    /\ test_results = EmptyMap
    /\ planned = NoPlan
    /\ files = EmptyMap
    /\ saves = EmptyMap
    /\ loaded = NotLoaded

Init == Start(Responses)

Returned(op, pid, result) == [op |-> op, pid |-> pid, result |-> result]

CurrentTask(text, task) == [text |-> text, task |-> task]

\* ------------------------------------------------- status bookkeeping
\* _update_status: both fields are written, nothing is checked.
UpdateStatus(s, status, current_task) ==
    [s EXCEPT !.status = status, !.current_task = current_task]

\* Mutant of UpdateProgress: the percentage is not recomputed.
UpdateProgress_Skipped(s, p) == s

\* _update_progress: (completed / total) * 100, skipped for an empty plan.
UpdateProgress(s, p) ==
    IF Len(p.tasks) > 0
    THEN [s EXCEPT !.progress_percentage =
                       [n |-> Len(s.completed_tasks), d |-> Len(p.tasks)]]
    ELSE s

\* Mutant of CanExecuteTask: every task is eligible.
CanExecuteTask_Always(task, completed_tasks) == TRUE

\* _can_execute_task: every dependency is in completed_tasks.
CanExecuteTask(task, completed_tasks) ==
    \A k \in 1..Len(task.dependencies) :
        task.dependencies[k] \in Range(completed_tasks)

\* project_status.completed_tasks.append(task.id)
MarkCompleted(s, task) ==
    [s EXCEPT !.completed_tasks = Append(@, task.id)]

\* Mutant of AppendError: the message goes to warnings.
AppendError_AsWarning(s, msg) == [s EXCEPT !.warnings = Append(@, msg)]

AppendError(s, msg) == [s EXCEPT !.errors = Append(@, msg)]

\* What the step being taken gets from the tracker, from evaluate and from
\* the remediation.
Step(trk, v, r) ==
    /\ tracked' = trk
    /\ evaluated' = v
    /\ review' = r

\* A step that calls none of them.
Quiet == Step("not called", NoVerdict, NoReview)

\* The loop of `phase` came to `task`: dispatched, or passed over.
Considered(phase, task, dispatched) ==
    taskLog' = Append(taskLog, [project |-> cur, phase |-> phase,
                                task |-> task.id, dispatched |-> dispatched])

\* The tracker updates at the call sites of one step of the manager: they
\* run only with a repository name, and whatever they do (True, False,
\* raise) is caught there; the ProjectStatus is left as it was.
TrackerOutcomes == {"True", "False", "raise"}

\* if self.use_github and self.github_manager and github_repo_name
TrackerCalls(github, s) ==
    IF github /\ s.github_repo_name # "None" THEN TrackerOutcomes
    ELSE {"not called"}

\* Mutant of UpdateProjectIssue: an update that raises is recorded in the
\* ProjectStatus.
UpdateProjectIssue_Propagates(s, outcome) ==
    IF outcome = "raise"
    THEN [s EXCEPT !.errors = Append(@, "Could not update GitHub issue")]
    ELSE s

UpdateProjectIssue(s, outcome) == s

\* Mutant of ExecutionFailed: the message is recorded, the status is not
\* moved to failed.
ExecutionFailed_KeepsStatus(s, why) == AppendError(s, why)

\* The except branch of execute_project.
ExecutionFailed(s, why) ==
    AppendError(
        UpdateStatus(s, "failed",
                     CurrentTask("Project execution failed", 0)),
        why)

\* next(task for task in tasks if 'setup' in task.title.lower()), as a
\* sequence of zero or one task.
SetupTask(tasks) ==
    LET hits == {i \in 1..Len(tasks) : tasks[i].setup}
    IN  IF hits = {} THEN <<>> ELSE <<tasks[Min(hits)]>>

TasksOf(p, agent) == SelectSeq(p.tasks, LAMBDA t : t.agent = agent)

\* ------------------------------------------------------------- reviewer
ReturnCodes == {0, 1, 2}

CheckNames == <<"ruff", "bandit", "pytest">>

CheckResults ==
    {[skipped |-> TRUE, returncode |-> 0]}
        \cup {[skipped |-> FALSE, returncode |-> r] : r \in ReturnCodes}

Reports == [{"ruff", "bandit", "pytest"} -> CheckResults]

\* Mutant of CheckFails: a check without a return code counts as failed.
CheckFails_NoneFails(v) ==
    \/ v.skipped
    \/ v.returncode # 0 /\ v.returncode # 1

\* v.get('returncode') not in (0, None, True) and v.get('returncode') != 0.
\* None is the value of a skipped check; True == 1 in Python.
CheckFails(v) ==
    /\ ~v.skipped
    /\ v.returncode # 0
    /\ v.returncode # 1

RECURSIVE NotesFrom(_, _)
NotesFrom(report, k) ==
    IF k > Len(CheckNames) THEN <<>>
    ELSE (IF CheckFails(report[CheckNames[k]])
          THEN <<CheckNames[k]>> ELSE <<>>) \o NotesFrom(report, k + 1)

\* evaluate: notes holds the check name k of each note "<k> failed".
evaluate(report) ==
    LET notes == NotesFrom(report, 1)
    IN  [approved |-> notes = <<>>, notes |-> notes]

\* _fix_code_issues: 'ruff' in issue re-runs ruff, 'test' in issue re-runs
\* the tests, any other note is passed over.
RECURSIVE FixCodeIssues(_, _, _, _)
FixCodeIssues(issues, k, ruffSuccess, testSuccess) ==
    IF k > Len(issues) THEN TRUE
    ELSE IF issues[k] = "ruff"
         THEN ruffSuccess /\ FixCodeIssues(issues, k + 1, ruffSuccess, testSuccess)
         ELSE IF issues[k] = "pytest"
              THEN testSuccess /\ FixCodeIssues(issues, k + 1, ruffSuccess, testSuccess)
              ELSE FixCodeIssues(issues, k + 1, ruffSuccess, testSuccess)

\* The tools _fix_code_issues re-runs for `issues`, each with its outcome:
\* the loop returns at the first one that does not succeed.
RECURSIVE FixReruns(_, _, _, _)
FixReruns(issues, k, ruffSuccess, testSuccess) ==
    IF k > Len(issues) THEN <<>>
    ELSE IF issues[k] = "ruff"
         THEN <<[check |-> "ruff", success |-> ruffSuccess]>>
                  \o (IF ruffSuccess
                      THEN FixReruns(issues, k + 1, ruffSuccess, testSuccess)
                      ELSE <<>>)
         ELSE IF issues[k] = "pytest"
              THEN <<[check |-> "pytest", success |-> testSuccess]>>
                       \o (IF testSuccess
                           THEN FixReruns(issues, k + 1, ruffSuccess, testSuccess)
                           ELSE <<>>)
              ELSE FixReruns(issues, k + 1, ruffSuccess, testSuccess)

\* ------------------------------------------------------- create_project
RepoOutcomes == {"created", "none", "raise"}

\* Mutant of CreatedStatus: a repository that was not created leaves no
\* trace.
CreatedStatus_DropsFailure(github, outcome) ==
    IF github /\ outcome = "created"
    THEN [NewStatus EXCEPT !.github_repo_name = "repo"]
    ELSE NewStatus

\* The ProjectStatus create_project registers: the repository fields when
\* the repository was created, an entry in errors when it was not.
CreatedStatus(github, outcome) ==
    IF ~github THEN NewStatus
    ELSE IF outcome = "created"
         THEN [NewStatus EXCEPT !.github_repo_name = "repo"]
         ELSE IF outcome = "none"
              THEN AppendError(NewStatus, "Failed to create GitHub repository")
              ELSE AppendError(NewStatus, "GitHub integration failed")

\* planner.plan raised: create_project ends at line 83 with nothing
\* registered.
CreateProjectRaises(p) ==
    /\ pc = "idle"
    /\ PlanRaises(breakdown)
    /\ lastOp' = Returned("create_project", p, "TypeError")
    /\ Quiet
    /\ UNCHANGED <<storageVars, use_github, breakdown, active_projects, project_plans, pc, cur,
                   idx, calls, callFrom, statusLog, phaseLog, taskLog,
                   test_results, planned>>

CreateProject(p, outcome) ==
    /\ pc = "idle"
    /\ ~PlanRaises(breakdown)
    /\ project_plans' = Put(project_plans, p, plan(breakdown))
    /\ active_projects' = Put(active_projects, p, CreatedStatus(use_github, outcome))
    /\ calls' = Put(calls, p, 0)
    /\ callFrom' = "None"
    /\ statusLog' = <<>>
    /\ phaseLog' = <<>>
    /\ lastOp' = Returned("create_project", p, p)
    /\ taskLog' = <<>>
    /\ Step(IF use_github THEN outcome ELSE "not called", NoVerdict, NoReview)
    /\ planned' = <<plan(breakdown)>>
    /\ UNCHANGED <<storageVars, use_github, breakdown, pc, cur, idx, test_results>>

\* ------------------------------------------------------ execute_project
Phase(name, result) == [phase |-> name, result |-> result]

\* The phase in flight ends with `result`.
EndPhase(log, result) == [log EXCEPT ![Len(log)].result = result]

\* The log of status writes after a loop iteration that left the status
\* record s: the write of a dispatch, none for a skipped task.
Written(log, s, dispatched) == IF dispatched THEN Append(log, s.status) ELSE log

\* A phase procedure returned False: execute_project raises, its except
\* branch marks the project failed, and the call returns False.
FailCall(s, dispatched, why) ==
    /\ active_projects' = [active_projects EXCEPT ![cur] = ExecutionFailed(s, why)]
    /\ statusLog' = Append(Written(statusLog, s, dispatched),
                           ExecutionFailed(s, why).status)
    /\ phaseLog' = EndPhase(phaseLog, "failed")
    /\ pc' = "idle"
    /\ cur' = NoProject
    /\ idx' = 0
    /\ lastOp' = Returned("execute_project", cur, "False")
    /\ UNCHANGED <<storageVars, use_github, breakdown, project_plans, calls, callFrom,
                   test_results, planned>>

\* The phase in flight returned True: the next phase's status is written
\* and its procedure is entered.
EnterPhase(s, status, text, nextPc) ==
    /\ active_projects' =
           [active_projects EXCEPT ![cur] = UpdateStatus(s, status, CurrentTask(text, 0))]
    /\ statusLog' = Append(statusLog, active_projects'[cur].status)
    /\ phaseLog' = Append(EndPhase(phaseLog, "ok"), Phase(nextPc, "running"))
    /\ pc' = nextPc
    /\ idx' = 1
    /\ UNCHANGED <<storageVars, use_github, breakdown, project_plans, cur, calls, callFrom, lastOp,
                   taskLog, test_results, planned>>

\* One iteration of a phase loop that stays in the phase.
StayInPhase(s, dispatched) ==
    /\ active_projects' = [active_projects EXCEPT ![cur] = s]
    /\ statusLog' = Written(statusLog, s, dispatched)
    /\ idx' = idx + 1
    /\ UNCHANGED <<storageVars, use_github, breakdown, project_plans, pc, cur, calls, callFrom,
                   phaseLog, lastOp, test_results, planned>>

ExecuteUnknown(p) ==
    /\ pc = "idle"
    /\ p \notin DOMAIN active_projects
    /\ lastOp' = Returned("execute_project", p, "ValueError")
    /\ Quiet
    /\ UNCHANGED <<storageVars, use_github, breakdown, active_projects, project_plans, pc, cur, idx,
                   calls, callFrom, statusLog, phaseLog, taskLog, test_results, planned>>

\* Mutant of ExecuteProject: the status is written to every registered
\* project.
ExecuteProject_EveryStatus(p) ==
    /\ pc = "idle"
    /\ p \in DOMAIN active_projects
    /\ calls[p] < MaxExecs
    /\ calls' = [calls EXCEPT ![p] = @ + 1]
    /\ active_projects' =
           [q \in DOMAIN active_projects |->
               UpdateStatus(active_projects[q], "in_progress",
                            CurrentTask("Setting up project structure", 0))]
    /\ callFrom' = active_projects[p].status
    /\ statusLog' = <<active_projects'[p].status>>
    /\ phaseLog' = <<Phase("setup", "running")>>
    /\ pc' = "setup"
    /\ cur' = p
    /\ idx' = 0
    /\ lastOp' = Returned("execute_project", p, "running")
    /\ taskLog' = <<>>
    /\ Quiet
    /\ UNCHANGED <<storageVars, use_github, breakdown, project_plans, test_results, planned>>

ExecuteProject(p) ==
    /\ pc = "idle"
    /\ p \in DOMAIN active_projects
    /\ calls[p] < MaxExecs
    /\ calls' = [calls EXCEPT ![p] = @ + 1]
    /\ active_projects' =
           [active_projects EXCEPT ![p] =
               UpdateStatus(@, "in_progress",
                            CurrentTask("Setting up project structure", 0))]
    /\ callFrom' = active_projects[p].status
    /\ statusLog' = <<active_projects'[p].status>>
    /\ phaseLog' = <<Phase("setup", "running")>>
    /\ pc' = "setup"
    /\ cur' = p
    /\ idx' = 0
    /\ lastOp' = Returned("execute_project", p, "running")
    /\ taskLog' = <<>>
    /\ Quiet
    /\ UNCHANGED <<storageVars, use_github, breakdown, project_plans, test_results, planned>>

\* Mutant of SetupStructure: the setup task is not marked completed.
SetupStructure_LeavesSetupTask(s, p, tracker) == UpdateProgress(s, p)

\* _setup_project_structure, to the entry of _implement_project.
SetupStructure(s, p, tracker) ==
    LET setup_task == SetupTask(p.tasks)
        marked == IF setup_task # <<>>
                  THEN UpdateProjectIssue(MarkCompleted(s, setup_task[1]), tracker)
                  ELSE s
    IN  UpdateProgress(marked, p)

SetupProjectStructure ==
    /\ pc = "setup"
    /\ LET s == active_projects[cur]
           p == project_plans[cur]
       IN  \/ \E trk \in IF SetupTask(p.tasks) = <<>> THEN {"not called"}
                          ELSE TrackerCalls(use_github, s) :
                 /\ EnterPhase(SetupStructure(s, p, trk), "in_progress",
                               "Implementing core functionality", "implement")
                 /\ Step(trk, NoVerdict, NoReview)
           \/ /\ FailCall(AppendError(s, "Setup failed"), FALSE,
                          "Project execution failed: Failed to setup project structure")
              /\ Quiet
              /\ UNCHANGED taskLog

\* A dispatched task succeeded: append its id, mirror it, recompute progress.
TaskDone(s, p, task, tracker) ==
    UpdateProgress(UpdateProjectIssue(MarkCompleted(s, task), tracker), p)

\* Mutant of Dispatch: every phase loop writes the implementation phase's
\* status.
Dispatch_ImplementStatus(s, status, text, task, tracker) ==
    UpdateProjectIssue(UpdateStatus(s, "in_progress", CurrentTask(text, task.id)),
                       tracker)

\* The status written when a task is dispatched, and the first mirroring.
Dispatch(s, status, text, task, tracker) ==
    UpdateProjectIssue(UpdateStatus(s, status, CurrentTask(text, task.id)), tracker)

\* _implement_project: one iteration of the loop over the coder tasks.
ImplementTask ==
    /\ pc = "implement"
    /\ LET s == active_projects[cur]
           p == project_plans[cur]
           coding_tasks == TasksOf(p, "coder")
       IN  /\ idx <= Len(coding_tasks)
           /\ LET task == coding_tasks[idx]
              IN  IF ~CanExecuteTask(task, s.completed_tasks)
                  THEN /\ StayInPhase(s, FALSE)
                       /\ Considered("implement", task, FALSE)
                       /\ Quiet
                  ELSE \E trk \in TrackerCalls(use_github, s) :
                         LET d == Dispatch(s, "in_progress", "Implementing", task, trk)
                         IN  /\ Considered("implement", task, TRUE)
                             /\ Step(trk, NoVerdict, NoReview)
                             /\ \/ StayInPhase(TaskDone(d, p, task, trk), TRUE)
                                \/ FailCall(AppendError(d, "Implementation failed"),
                                            TRUE,
                                            "Project execution failed: Failed to implement project")

\* _implement_project returns True; execute_project enters the testing phase.
ImplementDone ==
    /\ pc = "implement"
    /\ idx > Len(TasksOf(project_plans[cur], "coder"))
    /\ EnterPhase(active_projects[cur], "testing",
                  "Running tests and quality checks", "test")
    /\ Quiet

\* What lint_and_test followed by evaluate can hand to the manager.
Verdicts == {evaluate(report) : report \in Reports}

\* The ways the tools re-run by _fix_code_issues can end: none is re-run
\* for an approved report.
FixRuns(verdict) ==
    IF verdict.approved THEN {<<TRUE, TRUE>>}
    ELSE BOOLEAN \X BOOLEAN

\* Mutant of ReviewPasses: a remediation that returned False is let
\* through.
ReviewPasses_Lenient(verdict, ruffSuccess, testSuccess) == TRUE

\* The verdict on one reviewer task: approved, or remediated by
\* _fix_code_issues.
ReviewPasses(verdict, ruffSuccess, testSuccess) ==
    \/ verdict.approved
    \/ FixCodeIssues(verdict.notes, 1, ruffSuccess, testSuccess)

\* What one iteration of the review loop ran for `task`: lint_and_test and
\* evaluate, and _fix_code_issues with the tools it re-ran when the verdict
\* was a rejection.
Remediation(task, v, ruffSuccess, testSuccess) ==
    [task |-> task.id,
     runs |-> IF v.approved THEN <<"lint_and_test", "evaluate">>
              ELSE <<"lint_and_test", "evaluate", "_fix_code_issues">>,
     reruns |-> IF v.approved THEN <<>>
                ELSE FixReruns(v.notes, 1, ruffSuccess, testSuccess),
     fixed |-> IF v.approved THEN "not run"
               ELSE IF FixCodeIssues(v.notes, 1, ruffSuccess, testSuccess)
                    THEN "True" ELSE "False"]

\* _test_and_review_project: one iteration of the loop over the reviewer
\* tasks; `recorded` tells whether the step leaves its verdict and its
\* remediation in evaluated and review.
ReviewStep(recorded) ==
    /\ pc = "test"
    /\ LET s == active_projects[cur]
           p == project_plans[cur]
           review_tasks == TasksOf(p, "reviewer")
       IN  /\ idx <= Len(review_tasks)
           /\ LET task == review_tasks[idx]
              IN  IF ~CanExecuteTask(task, s.completed_tasks)
                  THEN /\ StayInPhase(s, FALSE)
                       /\ Considered("test", task, FALSE)
                       /\ Quiet
                  ELSE \E trk \in TrackerCalls(use_github, s), v \in Verdicts :
                       \E fix \in FixRuns(v) :
                         LET d == Dispatch(s, "testing", "Reviewing", task, trk)
                         IN  /\ Considered("test", task, TRUE)
                             /\ Step(trk,
                                     IF recorded THEN <<v>> ELSE NoVerdict,
                                     IF recorded
                                     THEN <<Remediation(task, v, fix[1], fix[2])>>
                                     ELSE NoReview)
                             /\ IF ReviewPasses(v, fix[1], fix[2])
                                THEN StayInPhase(TaskDone(d, p, task, trk), TRUE)
                                ELSE FailCall(AppendError(d, "Testing failed"),
                                              TRUE,
                                              "Project execution failed: Failed testing and review phase")

ReviewTask == ReviewStep(FALSE)

ReviewTaskRecorded == ReviewStep(TRUE)

\* _test_and_review_project returns True; the documentation phase is entered.
ReviewDone ==
    /\ pc = "test"
    /\ idx > Len(TasksOf(project_plans[cur], "reviewer"))
    /\ EnterPhase(active_projects[cur], "documentation",
                  "Generating documentation", "doc")
    /\ Quiet

\* _generate_documentation: one iteration of the loop over the doc_agent tasks.
DocumentTask ==
    /\ pc = "doc"
    /\ LET s == active_projects[cur]
           p == project_plans[cur]
           doc_tasks == TasksOf(p, "doc_agent")
       IN  /\ idx <= Len(doc_tasks)
           /\ LET task == doc_tasks[idx]
              IN  IF ~CanExecuteTask(task, s.completed_tasks)
                  THEN /\ StayInPhase(s, FALSE)
                       /\ Considered("doc", task, FALSE)
                       /\ Quiet
                  ELSE \E trk \in TrackerCalls(use_github, s) :
                         LET d == Dispatch(s, "documentation", "Generating", task, trk)
                         IN  /\ Considered("doc", task, TRUE)
                             /\ Step(trk, NoVerdict, NoReview)
                             /\ \/ StayInPhase(TaskDone(d, p, task, trk), TRUE)
                                \/ FailCall(AppendError(d, "Documentation failed"),
                                            TRUE,
                                            "Project execution failed: Failed to generate documentation")

\* Mutant of Finalize: the completion time is set, the status is not.
Finalize_KeepsStatus(s, tracker) ==
    UpdateProjectIssue([s EXCEPT !.actual_completion = "set"], tracker)

\* Phase 5 of execute_project: completed, actual_completion, the tracker.
Finalize(s, tracker) ==
    UpdateProjectIssue(
        [UpdateStatus(s, "completed", CurrentTask("Project completed successfully", 0))
            EXCEPT !.actual_completion = "set"],
        tracker)

\* _generate_documentation returns True; execute_project finalizes and
\* returns True.
DocumentDone ==
    /\ pc = "doc"
    /\ idx > Len(TasksOf(project_plans[cur], "doc_agent"))
    /\ \E trk \in TrackerCalls(use_github, active_projects[cur]) :
          /\ active_projects' =
                 [active_projects EXCEPT ![cur] = Finalize(active_projects[cur], trk)]
          /\ Step(trk, NoVerdict, NoReview)
    /\ statusLog' = Append(statusLog, active_projects'[cur].status)
    /\ phaseLog' = EndPhase(phaseLog, "ok")
    /\ pc' = "idle"
    /\ cur' = NoProject
    /\ idx' = 0
    /\ lastOp' = Returned("execute_project", cur, "True")
    /\ UNCHANGED <<storageVars, use_github, breakdown, project_plans, calls, callFrom, taskLog,
                   test_results, planned>>

\* ------------------------------------------------------ package_project
\* Mutant of PackageGuard: the status is not looked at.
PackageGuard_AnyStatus(projects, p) ==
    IF p \notin DOMAIN projects THEN "ValueError: not found" ELSE "None"

\* The two guards of package_project, as the exception raised or "None".
PackageGuard(projects, p) ==
    IF p \notin DOMAIN projects THEN "ValueError: not found"
    ELSE IF projects[p].status # "completed" THEN "ValueError: not completed"
         ELSE "None"

PackageProject(p) ==
    /\ pc = "idle"
    /\ LET raised == PackageGuard(active_projects, p)
       IN  IF raised # "None"
           THEN lastOp' = Returned("package_project", p, raised)
           ELSE \E zipped \in BOOLEAN :
                   lastOp' = Returned("package_project", p,
                                      IF zipped THEN "archive"
                                      ELSE "Exception: Failed to package project")
    /\ Quiet
    /\ UNCHANGED <<storageVars, use_github, breakdown, active_projects, project_plans, pc, cur, idx,
                   calls, callFrom, statusLog, phaseLog, taskLog, test_results, planned>>

\* --------------------------------------------------- get_project_status
GetProjectStatus(p) ==
    /\ pc = "idle"
    /\ lastOp' = Returned("get_project_status", p,
                          IF p \in DOMAIN active_projects THEN "ProjectStatus"
                          ELSE "None")
    /\ Quiet
    /\ UNCHANGED <<storageVars, use_github, breakdown, active_projects, project_plans, pc, cur, idx,
                   calls, callFrom, statusLog, phaseLog, taskLog, test_results, planned>>

\* ------------------------------------------------------ cleanup_project
\* Mutant of CleanupProject: the plan stays registered.
CleanupProject_KeepsPlan(p) ==
    /\ pc = "idle"
    /\ active_projects' = Remove(active_projects, p)
    /\ calls' = Remove(calls, p)
    /\ callFrom' = "None"
    /\ statusLog' = <<>>
    /\ phaseLog' = <<>>
    /\ lastOp' = Returned("cleanup_project", p, "True")
    /\ taskLog' = <<>>
    /\ Quiet
    /\ UNCHANGED <<storageVars, use_github, breakdown, project_plans, pc, cur, idx,
                   test_results, planned>>

CleanupProject(p) ==
    /\ pc = "idle"
    /\ active_projects' = Remove(active_projects, p)
    /\ project_plans' = Remove(project_plans, p)
    /\ calls' = Remove(calls, p)
    /\ callFrom' = "None"
    /\ statusLog' = <<>>
    /\ phaseLog' = <<>>
    /\ lastOp' = Returned("cleanup_project", p, "True")
    /\ taskLog' = <<>>
    /\ Quiet
    /\ UNCHANGED <<storageVars, use_github, breakdown, pc, cur, idx, test_results, planned>>

\* ---------------------------------------------------------- specification
Next ==
    \/ \E p \in SpecIds, outcome \in RepoOutcomes : CreateProject(p, outcome)
    \/ \E p \in SpecIds : ExecuteUnknown(p)
    \/ \E p \in SpecIds : ExecuteProject(p)
    \/ SetupProjectStructure
    \/ ImplementTask
    \/ ImplementDone
    \/ ReviewTask
    \/ ReviewDone
    \/ DocumentTask
    \/ DocumentDone
    \/ \E p \in SpecIds : PackageProject(p)
    \/ \E p \in SpecIds : CleanupProject(p)

Spec == Init /\ [][Next]_vars

\* The manager with a backend whose JSON array names, in some task, a
\* dependency id that no task of the plan carries.
BlockedTaskData ==
    [setup : BOOLEAN, agent : BreakdownAgents, dependencies : {<<>>, <<99>>}]

BlockedResponses ==
    {[parsed |-> FALSE, data |-> <<>>]}
        \cup {[parsed |-> TRUE, data |-> d] :
                 d \in {x \in UNION {[1..n -> BlockedTaskData] : n \in 1..MaxTasks} :
                           \E i \in 1..Len(x) : x[i].dependencies # <<>>}}

InitBlocked == Start(BlockedResponses)

SpecBlocked == InitBlocked /\ [][Next]_vars

\* The manager with every review step recorded, for a backend whose JSON
\* array holds reviewer tasks.
ReviewTaskData ==
    [setup : BOOLEAN, agent : {"reviewer"}, dependencies : DepChoices]

ReviewResponses ==
    {[parsed |-> FALSE, data |-> <<>>]}
        \cup {[parsed |-> TRUE, data |-> d] :
                 d \in UNION {[1..n -> ReviewTaskData] : n \in 0..MaxTasks}}

InitReview ==
    /\ Start(ReviewResponses)
    /\ ~use_github

NextReview ==
    \/ \E p \in SpecIds, outcome \in RepoOutcomes : CreateProject(p, outcome)
    \/ \E p \in SpecIds : ExecuteUnknown(p)
    \/ \E p \in SpecIds : ExecuteProject(p)
    \/ SetupProjectStructure
    \/ ImplementTask
    \/ ImplementDone
    \/ ReviewTaskRecorded
    \/ ReviewDone
    \/ DocumentTask
    \/ DocumentDone
    \/ \E p \in SpecIds : PackageProject(p)
    \/ \E p \in SpecIds : CleanupProject(p)

SpecReview == InitReview /\ [][NextReview]_vars

\* The manager with two project ids, for a backend that answers with one
\* coder task or with text that holds no array.
PairIds == {"p1", "p2"}

PairResponses ==
    {[parsed |-> FALSE, data |-> <<>>],
     [parsed |-> TRUE,
      data |-> <<[setup |-> FALSE, agent |-> "coder", dependencies |-> <<>>]>>]}

InitPair ==
    /\ Start(PairResponses)
    /\ ~use_github

NextPair ==
    \/ \E p \in PairIds, outcome \in RepoOutcomes : CreateProject(p, outcome)
    \/ \E p \in PairIds : ExecuteUnknown(p)
    \/ \E p \in PairIds : ExecuteProject(p)
    \/ SetupProjectStructure
    \/ ImplementTask
    \/ ImplementDone
    \/ ReviewTask
    \/ ReviewDone
    \/ DocumentTask
    \/ DocumentDone
    \/ \E p \in PairIds : PackageProject(p)
    \/ \E p \in PairIds : GetProjectStatus(p)
    \/ \E p \in PairIds : CleanupProject(p)

SpecPair == InitPair /\ [][NextPair]_vars

\* ------------------------------------------------------------- the planner
\* One element of the JSON array, with its estimate.
EstimatedTaskData ==
    [setup : {FALSE}, agent : {"coder"}, dependencies : {<<>>},
     estimated_hours : 0..MaxHours]

\* An object without agent, dependencies or estimate.
BareTaskData == {[setup |-> FALSE]}

\* An object whose estimate is a JSON string.
TextEstimateTaskData ==
    [setup : {FALSE}, agent : {"coder"}, dependencies : {<<>>},
     estimated_hours_text : {"8"}]

\* An element that is not an object.
ScalarData == {[scalar |-> 1]}

PlannerTaskData ==
    EstimatedTaskData \cup BareTaskData \cup TextEstimateTaskData \cup ScalarData

PlannerResponses ==
    {[parsed |-> FALSE, data |-> <<>>]}
        \cup {[parsed |-> TRUE, data |-> d] :
                 d \in UNION {[1..n -> PlannerTaskData] : n \in 0..MaxTasks}}

\* PlannerAgent.plan, for one answer of the backend to the breakdown prompt:
\* the ProjectPlan, or the TypeError of sum().
PlannerPlan(response) ==
    /\ pc = "idle"
    /\ IF PlanRaises(response)
       THEN /\ lastOp' = Returned("plan", NoProject, "TypeError")
            /\ UNCHANGED planned
       ELSE /\ lastOp' = Returned("plan", NoProject, "ProjectPlan")
            /\ planned' = <<plan(response)>>
    /\ UNCHANGED <<storageVars, use_github, breakdown, active_projects, project_plans, pc, cur,
                   idx, calls, callFrom, statusLog, phaseLog, taskLog,
                   tracked, evaluated, review, test_results>>

InitPlanner ==
    /\ Start(PlannerResponses)
    /\ ~use_github

NextPlanner ==
    \/ PlannerPlan(breakdown)
    \/ \E p \in SpecIds, outcome \in RepoOutcomes : CreateProject(p, outcome)
    \/ \E p \in SpecIds : CreateProjectRaises(p)

SpecPlanner == InitPlanner /\ [][NextPlanner]_vars

\* ------------------------------------------------------------ the reviewer
managerVars == <<storageVars, use_github, breakdown, active_projects, project_plans, pc, cur,
                 idx, calls, callFrom, statusLog, phaseLog, lastOp, taskLog,
                 tracked, review, planned>>

\* lint_and_test comes to its next check: the tool is absent and the check
\* is recorded as skipped, or run_cmd gives its return code.
RunCheck(result) ==
    /\ evaluated = NoVerdict
    /\ Cardinality(DOMAIN test_results) < Len(CheckNames)
    /\ test_results' =
           Put(test_results, CheckNames[Cardinality(DOMAIN test_results) + 1], result)
    /\ UNCHANGED <<managerVars, evaluated>>

\* evaluate(report) on the report lint_and_test returned.
Evaluate ==
    /\ evaluated = NoVerdict
    /\ Cardinality(DOMAIN test_results) = Len(CheckNames)
    /\ evaluated' = <<evaluate(test_results)>>
    /\ UNCHANGED <<managerVars, test_results>>

\* The next lint_and_test starts from an empty report.
LintAgain ==
    /\ evaluated # NoVerdict
    /\ test_results' = EmptyMap
    /\ evaluated' = NoVerdict
    /\ UNCHANGED managerVars

InitReviewer ==
    /\ Start({[parsed |-> FALSE, data |-> <<>>]})
    /\ ~use_github

NextReviewer ==
    \/ \E result \in CheckResults : RunCheck(result)
    \/ Evaluate
    \/ LintAgain

SpecReviewer == InitReviewer /\ [][NextReviewer]_vars

\* ------------------------------------------------------------- the storage
\* A Python value is a record of one field that names its type; a JSON
\* value likewise.  A project record is a dict: a function from its keys.
StorageIds == {"p1", "p2"}

PyValues ==
    {[str |-> "a"], [list |-> <<[int |-> 1], [none |-> TRUE]>>],
     [tuple |-> <<[int |-> 1], [none |-> TRUE]>>],
     [datetime |-> "2026-01-01 00:00:00"]}

\* Records with a name, with a _metadata key of their own, with both or
\* with neither.
ProjectRecords ==
    UNION {[keys -> PyValues] : keys \in SUBSET {"name"}}
        \cup {[_metadata |-> [str |-> "own"]],
              [name |-> [str |-> "a"], _metadata |-> [str |-> "own"]]}

\* datetime.now().isoformat() at the save.
SaveTimes == {"t1"}

\* What the file system does to a save: the file is written, open() raises
\* and leaves the file as it was, or the write stops part-way.
WriteOutcomes == {"written", "open fails", "write fails"}

Metadata(saved_at) ==
    [dict |-> [saved_at |-> [str |-> saved_at], version |-> [str |-> "1.0"]]]

\* json.dump(..., default=str): dict to object, list and tuple to array,
\* str to string, int to number, None to null; str() of anything else.
RECURSIVE Dump(_)
Dump(v) ==
    IF "dict" \in DOMAIN v
    THEN [object |-> [k \in DOMAIN v.dict |-> Dump(v.dict[k])]]
    ELSE IF "list" \in DOMAIN v
    THEN [array |-> [i \in 1..Len(v.list) |-> Dump(v.list[i])]]
    ELSE IF "tuple" \in DOMAIN v
    THEN [array |-> [i \in 1..Len(v.tuple) |-> Dump(v.tuple[i])]]
    ELSE IF "str" \in DOMAIN v THEN [string |-> v.str]
    ELSE IF "int" \in DOMAIN v THEN [number |-> v.int]
    ELSE IF "none" \in DOMAIN v THEN [null |-> TRUE]
    ELSE [string |-> v.datetime]

\* json.load: object to dict, array to list, string to str, number to int,
\* null to None.
RECURSIVE Load(_)
Load(j) ==
    IF "object" \in DOMAIN j
    THEN [dict |-> [k \in DOMAIN j.object |-> Load(j.object[k])]]
    ELSE IF "array" \in DOMAIN j
    THEN [list |-> [i \in 1..Len(j.array) |-> Load(j.array[i])]]
    ELSE IF "string" \in DOMAIN j THEN [str |-> j.string]
    ELSE IF "number" \in DOMAIN j THEN [int |-> j.number]
    ELSE [none |-> TRUE]

\* The content of a file: the JSON document, or what a write that stopped
\* part-way left of it.
Document(project_data) == [json |-> Dump([dict |-> project_data])]

Partial == [partial |-> TRUE]

\* save_project: the caller's dict gets the _metadata key before the file is
\* opened; every exception ends in False.
SaveProject(project_id, project_data, saved_at, outcome) ==
    LET stamped == Put(project_data, "_metadata", Metadata(saved_at))
    IN  /\ files' = IF outcome = "written"
                       THEN Put(files, project_id, Document(stamped))
                    ELSE IF outcome = "write fails"
                       THEN Put(files, project_id, Partial)
                    ELSE files
        /\ saves' = Put(saves, project_id,
                        [project_data |-> project_data,
                         stamped |-> stamped,
                         result |-> outcome = "written"])
        /\ loaded' = NotLoaded
        /\ UNCHANGED <<use_github, breakdown, active_projects, project_plans, pc,
                       cur, idx, calls, callFrom, statusLog, phaseLog, lastOp,
                       taskLog, tracked, evaluated, review, test_results, planned>>

\* Mutant of Parsed: the _metadata key stays in the record.
Parsed_KeepsMetadata(content) == Load(content.json).dict

\* What load_project returns for a file json.load accepts.
Parsed(content) == Remove(Load(content.json).dict, "_metadata")

\* load_project: None for a missing file and for one json.load rejects.
LoadProject(project_id) ==
    /\ loaded' =
           [project_id |-> project_id,
            result |-> IF project_id \in DOMAIN files
                            /\ "json" \in DOMAIN files[project_id]
                       THEN <<Parsed(files[project_id])>>
                       ELSE <<>>]
    /\ UNCHANGED <<files, saves>>
    /\ UNCHANGED <<use_github, breakdown, active_projects, project_plans, pc,
                   cur, idx, calls, callFrom, statusLog, phaseLog, lastOp,
                   taskLog, tracked, evaluated, review, test_results, planned>>

\* delete_project: the file, when there is one, is copied to backups and
\* unlinked.
DeleteProject(project_id) ==
    /\ project_id \in DOMAIN files
    /\ files' = Remove(files, project_id)
    /\ saves' = Remove(saves, project_id)
    /\ loaded' = NotLoaded
    /\ UNCHANGED <<use_github, breakdown, active_projects, project_plans, pc,
                   cur, idx, calls, callFrom, statusLog, phaseLog, lastOp,
                   taskLog, tracked, evaluated, review, test_results, planned>>

InitStorage ==
    /\ Start({[parsed |-> FALSE, data |-> <<>>]})
    /\ ~use_github

NextStorage ==
    \/ \E project_id \in StorageIds, project_data \in ProjectRecords,
          saved_at \in SaveTimes, outcome \in WriteOutcomes :
           SaveProject(project_id, project_data, saved_at, outcome)
    \/ \E project_id \in StorageIds : LoadProject(project_id)
    \/ \E project_id \in StorageIds : DeleteProject(project_id)

SpecStorage == InitStorage /\ [][NextStorage]_vars

\* ----------------------------------------------------------------- claims
Registered == DOMAIN active_projects

StatusRank(status) ==
    CASE status = "planning" -> 0
      [] status = "in_progress" -> 1
      [] status = "testing" -> 2
      [] status = "documentation" -> 3
      [] status = "completed" -> 4
      [] OTHER -> 5

Terminal == {"completed", "failed"}

NoDuplicates(seq) == \A i, j \in 1..Len(seq) : seq[i] = seq[j] => i = j

Last(seq) == seq[Len(seq)]

\* A step of any operation but create_project on a project that stays
\* registered.
SameProject(p) ==
    /\ p \in Registered
    /\ p \in DOMAIN active_projects'
    /\ lastOp'.op # "create_project"

\* C1: over any sequence of execute_project and package_project calls on a
\* registered project, status never moves back in the order planning <
\* in_progress < testing < documentation < completed, and once it is
\* completed or failed no later call changes it.
C1_StatusNeverRegresses ==
    [][\A p \in SpecIds :
          SameProject(p) =>
              LET before == active_projects[p].status
                  after == active_projects'[p].status
              IN  /\ before \in Terminal => after = before
                  /\ after # "failed" => StatusRank(before) <= StatusRank(after)]_vars

\* C2: a task id is appended to completed_tasks only when every id in that
\* task's dependencies is already in completed_tasks, in every phase, the
\* setup phase included.
C2_CompletedOnlyAfterDependencies ==
    [][\A p \in SpecIds :
          SameProject(p) =>
              LET before == active_projects[p].completed_tasks
                  after == active_projects'[p].completed_tasks
                  tasks == project_plans[p].tasks
              IN  \A k \in 1..Len(after) :
                      k > Len(before) =>
                          \A i \in 1..Len(tasks) :
                              tasks[i].id = after[k] =>
                                  Range(tasks[i].dependencies)
                                      \subseteq Range(SubSeq(after, 1, k - 1))]_vars

\* C3: in every reachable state a task id occurs in completed_tasks at most
\* once.
C3_CompletedTasksUnique ==
    \A p \in Registered : NoDuplicates(active_projects[p].completed_tasks)

\* C4: in every state, so after create_project, after every step of
\* execute_project and when a call returns after a phase failed part-way,
\* progress_percentage is 100 * len(completed_tasks) / len(plan.tasks), and
\* 0 for a plan without tasks.
C4_ProgressMatchesCompleted ==
    \A p \in Registered :
        LET s == active_projects[p]
            total == Len(project_plans[p].tasks)
        IN  /\ s.progress_percentage.d > 0
            /\ total > 0 =>
                   s.progress_percentage.n * total
                       = Len(s.completed_tasks) * s.progress_percentage.d
            /\ total = 0 => s.progress_percentage.n = 0

\* C4 witness: a call has returned after a phase failed part-way, with
\* tasks completed before the failure and the progress they amount to.
C4_Witness ==
    \E p \in Registered :
        /\ pc = "idle"
        /\ lastOp = Returned("execute_project", p, "False")
        /\ Len(phaseLog) >= 2
        /\ Len(active_projects[p].completed_tasks) = 1
        /\ Len(project_plans[p].tasks) = 2
        /\ active_projects[p].progress_percentage = [n |-> 1, d |-> 2]

\* C5: progress_percentage stays within [0, 100] in every reachable state.
C5_ProgressWithinBounds ==
    \A p \in Registered :
        LET pr == active_projects[p].progress_percentage
        IN  /\ pr.d > 0
            /\ 0 <= pr.n
            /\ pr.n <= pr.d

\* The step in which a phase procedure of the call in flight fails.
PhaseFails ==
    /\ pc # "idle"
    /\ phaseLog' # <<>>
    /\ Last(phaseLog').result = "failed"

\* C6: when a phase of execute_project fails, status becomes failed, at
\* least one message is appended to errors, the call returns False, no
\* task is added to completed_tasks, and no later phase procedure is
\* invoked in that call.
C6_PhaseFailureEndsCall ==
    /\ [][PhaseFails =>
            /\ active_projects'[cur].status = "failed"
            /\ Len(active_projects'[cur].errors) > Len(active_projects[cur].errors)
            /\ active_projects'[cur].completed_tasks
                   = active_projects[cur].completed_tasks
            /\ lastOp' = Returned("execute_project", cur, "False")
            /\ pc' = "idle"]_vars
    /\ [](\A k \in 1..Len(phaseLog) :
             phaseLog[k].result = "failed" => k = Len(phaseLog) /\ pc = "idle")

\* C6 witness: the testing phase failed after two phases had succeeded.
C6_Witness ==
    /\ Len(phaseLog) = 3
    /\ phaseLog[3] = Phase("test", "failed")
    /\ lastOp.op = "execute_project"
    /\ lastOp.result = "False"

\* C7: every execute_project call on a registered project returns True
\* with status completed, or False with status failed and errors not
\* empty; it never returns with status planning, in_progress, testing or
\* documentation.
C7_ExecuteEndsTerminal ==
    (pc = "idle" /\ lastOp.op = "execute_project" /\ lastOp.pid \in Registered) =>
        LET s == active_projects[lastOp.pid]
        IN  \/ lastOp.result = "True" /\ s.status = "completed"
            \/ lastOp.result = "False" /\ s.status = "failed" /\ s.errors # <<>>

\* C7 witness: a second call on a project returned True.
C7_Witness ==
    /\ pc = "idle"
    /\ lastOp.op = "execute_project"
    /\ lastOp.result = "True"
    /\ lastOp.pid \in Registered
    /\ calls[lastOp.pid] = 2

\* The status values of a log without the repetitions of one value.
RECURSIVE Distinct(_)
Distinct(log) ==
    IF Len(log) <= 1 THEN log
    ELSE IF log[1] = log[2] THEN Distinct(Tail(log))
         ELSE <<log[1]>> \o Distinct(Tail(log))

PhaseOrder == <<"in_progress", "testing", "documentation", "completed">>

IsPrefix(a, b) == Len(a) <= Len(b) /\ SubSeq(b, 1, Len(a)) = a

Succeeded(phase) == \E k \in 1..Len(phaseLog) : phaseLog[k] = Phase(phase, "ok")

\* C8: within one execute_project call started from status planning the
\* status values written are in_progress, testing, documentation, completed
\* in that order, each entered after the preceding phase procedure returned
\* success, each phase procedure run at most once; the only other value
\* written is failed, and it is the last.
C8_PhasesInOrder ==
    callFrom = "planning" =>
        LET written == Distinct(statusLog)
            forward == IF written # <<>> /\ Last(written) = "failed"
                       THEN SubSeq(written, 1, Len(written) - 1)
                       ELSE written
        IN  /\ IsPrefix(forward, PhaseOrder)
            /\ "testing" \in Range(written) => Succeeded("setup") /\ Succeeded("implement")
            /\ "documentation" \in Range(written) => Succeeded("test")
            /\ "completed" \in Range(written) => Succeeded("doc")
            /\ \A j, k \in 1..Len(phaseLog) :
                   phaseLog[j].phase = phaseLog[k].phase => j = k

\* C8 witness: a call started from planning wrote all four values.
C8_Witness ==
    /\ callFrom = "planning"
    /\ Distinct(statusLog) = PhaseOrder
    /\ Len(statusLog) > 5

\* C9: in every state between operations actual_completion is set if and
\* only if status is completed.
C9_CompletionIffCompleted ==
    pc = "idle" =>
        \A p \in Registered :
            active_projects[p].actual_completion = "set"
                <=> active_projects[p].status = "completed"

\* C10: package_project raises for every project whose status is not
\* completed and for every unknown project id, and then leaves the
\* registries and every ProjectStatus unchanged.
C10_PackageRefusesUnfinished ==
    [][(/\ lastOp'.op = "package_project"
        /\ \/ lastOp'.pid \notin Registered
           \/ active_projects[lastOp'.pid].status # "completed") =>
            /\ lastOp'.result \in {"ValueError: not found", "ValueError: not completed"}
            /\ active_projects' = active_projects
            /\ project_plans' = project_plans]_vars

\* C10 witness: package_project has raised on a failed project.
C10_Witness ==
    /\ lastOp.op = "package_project"
    /\ lastOp.pid \in Registered
    /\ active_projects[lastOp.pid].status = "failed"
    /\ lastOp.result = "ValueError: not completed"

\* The agent whose tasks the loop of a phase selects.
PhaseAgent(phase) ==
    CASE phase = "implement" -> "coder"
      [] phase = "test" -> "reviewer"
      [] OTHER -> "doc_agent"

LoopPhases == {"implement", "test", "doc"}

Ids(seq) == [k \in 1..Len(seq) |-> seq[k].id]

Count(x, seq) == Cardinality({k \in 1..Len(seq) : seq[k] = x})

\* The task ids the loop of `phase` has come to, in the order it did.
CameTo(phase) ==
    LET entries == SelectSeq(taskLog, LAMBDA e : e.phase = phase)
    IN  [k \in 1..Len(entries) |-> entries[k].task]

\* The loop of a phase comes to a task in the step being taken.
ComesToTask == Len(taskLog') = Len(taskLog) + 1

\* C11: within a phase the matching tasks are considered once each in
\* plan-list order; a task whose dependencies are not all in completed_tasks
\* at its turn is not dispatched, is not added to completed_tasks, adds
\* nothing to errors, and is not considered again in the same
\* execute_project call, nor completed by it, even when its dependencies
\* complete afterwards.
C11_SkippedTaskStaysSkipped ==
    /\ [][ComesToTask =>
            LET e == Last(taskLog')
                s == active_projects[e.project]
                task == project_plans[e.project].tasks[e.task]
            IN  ~(Range(task.dependencies) \subseteq Range(s.completed_tasks)) =>
                    /\ ~e.dispatched
                    /\ active_projects'[e.project] = s]_vars
    /\ [][\A k \in 1..Len(taskLog) :
              (~taskLog[k].dispatched /\ IsPrefix(taskLog, taskLog')) =>
                  Count(taskLog[k].task,
                        active_projects'[taskLog[k].project].completed_tasks)
                      = Count(taskLog[k].task,
                              active_projects[taskLog[k].project].completed_tasks)]_vars
    /\ [](taskLog # <<>> =>
             \A phase \in LoopPhases :
                 LET matching == Ids(TasksOf(project_plans[taskLog[1].project],
                                             PhaseAgent(phase)))
                 IN  /\ IsPrefix(CameTo(phase), matching)
                     /\ Succeeded(phase) => CameTo(phase) = matching)

\* C11 witness: a call has returned True after it passed over a task whose
\* dependencies were completed later in the same call.
C11_Witness ==
    /\ pc = "idle"
    /\ lastOp.op = "execute_project"
    /\ lastOp.result = "True"
    /\ \E k \in 1..Len(taskLog) :
          LET s == active_projects[taskLog[k].project]
              task == project_plans[taskLog[k].project].tasks[taskLog[k].task]
          IN  /\ ~taskLog[k].dispatched
              /\ task.dependencies # <<>>
              /\ Range(task.dependencies) \subseteq Range(s.completed_tasks)
              /\ task.id \notin Range(s.completed_tasks)

\* A dependency of `task` is the id of no task of the plan: it never enters
\* completed_tasks.
NeverCompletes(task, tasks) ==
    \E k \in 1..Len(task.dependencies) :
        task.dependencies[k] \notin Range(Ids(tasks))

\* C12: when a plan holds a task with a dependency that never completes,
\* execute_project does not fail for that: a call fails only where a phase
\* procedure failed, and a call in which every dispatched agent call
\* succeeded returns True with status completed, that task absent from
\* completed_tasks and progress_percentage below 100.
C12_BlockedTaskLeavesProgressBelow100 ==
    (pc = "idle" /\ lastOp.op = "execute_project" /\ lastOp.pid \in Registered) =>
        LET s == active_projects[lastOp.pid]
            tasks == project_plans[lastOp.pid].tasks
        IN  \A i \in 1..Len(tasks) :
                NeverCompletes(tasks[i], tasks) =>
                    /\ lastOp.result = "False" => Last(phaseLog).result = "failed"
                    /\ lastOp.result = "True" =>
                           /\ s.status = "completed"
                           /\ tasks[i].id \notin Range(s.completed_tasks)
                           /\ s.progress_percentage.n < s.progress_percentage.d

\* The messages the phase procedures and execute_project append to errors.
ExecutionMessages ==
    {"Setup failed", "Implementation failed", "Testing failed",
     "Documentation failed",
     "Project execution failed: Failed to setup project structure",
     "Project execution failed: Failed to implement project",
     "Project execution failed: Failed testing and review phase",
     "Project execution failed: Failed to generate documentation"}

C14_CreateRegistersPlanning ==
    lastOp.op = "create_project" =>
        /\ lastOp.pid \in DOMAIN active_projects
        /\ lastOp.pid \in DOMAIN project_plans
        /\ lastOp.result = lastOp.pid
        /\ LET s == active_projects[lastOp.pid]
           IN  /\ s.status = "planning"
               /\ s.progress_percentage = ZeroProgress
               /\ s.completed_tasks = <<>>
               /\ s.actual_completion = "None"
               /\ tracked \in {"none", "raise"} =>
                      /\ Len(s.errors) = 1
                      /\ s.github_repo_name = "None"
               /\ tracked \in {"created", "not called"} => s.errors = <<>>

\* C14 witness: create_project has returned a registered project after the
\* repository creation raised.
C14_Witness ==
    /\ lastOp.op = "create_project"
    /\ tracked = "raise"
    /\ lastOp.pid \in Registered
    /\ active_projects[lastOp.pid].errors = <<"GitHub integration failed">>

\* C15: every create_project call produces an id that is not in the active
\* registry, whether the id comes from the clock or from the caller, so the
\* call leaves the Plan and the ProjectStatus of every registered project
\* as they were.
C15_CreateUsesFreshId ==
    [][\A p \in SpecIds :
          (\E outcome \in RepoOutcomes : CreateProject(p, outcome)) =>
              /\ p \notin Registered
              /\ \A q \in Registered :
                     /\ active_projects'[q] = active_projects[q]
                     /\ project_plans'[q] = project_plans[q]]_vars

\* The checks of a report that ran and returned a non-zero code, in report
\* order.
NonZeroChecks(r) ==
    SelectSeq(CheckNames, LAMBDA c : ~r[c].skipped /\ r[c].returncode # 0)

\* C16: for every report evaluate returns approved = False if and only if at
\* least one non-skipped check has a non-zero return code, and notes is the
\* list of '<check> failed' for each such check in report order.
C16_RejectsEveryNonZeroCode ==
    evaluated # NoVerdict =>
        /\ evaluated[1].approved <=> NonZeroChecks(test_results) = <<>>
        /\ evaluated[1].notes = NonZeroChecks(test_results)

\* C17: a check recorded as skipped never causes rejection: it is in no
\* note, and a report in which every check is skipped or has return code 0
\* is approved with empty notes.
C17_SkippedChecksPass ==
    evaluated # NoVerdict =>
        /\ \A k \in 1..Len(evaluated[1].notes) :
               ~test_results[evaluated[1].notes[k]].skipped
        /\ (\A c \in DOMAIN test_results :
                test_results[c].skipped \/ test_results[c].returncode = 0) =>
               evaluated[1] = [approved |-> TRUE, notes |-> <<>>]

\* C17 witness: a report with a skipped check and a check that returned 0
\* has been evaluated as approved.
C17_Witness ==
    /\ evaluated # NoVerdict
    /\ evaluated[1].approved
    /\ \E c \in DOMAIN test_results : test_results[c].skipped
    /\ \E c \in DOMAIN test_results :
          ~test_results[c].skipped /\ test_results[c].returncode = 0

\* The step being taken dispatches a reviewer task.
ReviewsTask == review' # NoReview

\* C18: for each dispatched reviewer task lint_and_test and evaluate run
\* exactly once and, when the verdict is not approved, _fix_code_issues runs
\* exactly once; there is no further retry: when _fix_code_issues returns
\* False the testing phase fails and the project ends in failed.
C18_OneRemediationPass ==
    [][/\ ReviewsTask <=>
              /\ ComesToTask
              /\ Last(taskLog').phase = "test"
              /\ Last(taskLog').dispatched
       /\ ReviewsTask =>
              LET r == review'[1]
                  v == evaluated'[1]
              IN  /\ r.task = Last(taskLog').task
                  /\ Count("lint_and_test", r.runs) = 1
                  /\ Count("evaluate", r.runs) = 1
                  /\ Count("_fix_code_issues", r.runs) = IF v.approved THEN 0 ELSE 1
                  /\ r.fixed = "False" =>
                         /\ active_projects'[cur].status = "failed"
                         /\ active_projects'[cur].completed_tasks
                                = active_projects[cur].completed_tasks
                         /\ Last(phaseLog') = Phase("test", "failed")
                         /\ lastOp' = Returned("execute_project", cur, "False")
                         /\ pc' = "idle"]_vars

\* C18 witness: the remediation of a rejected review returned False and the
\* project is failed.
C18_Witness ==
    /\ review # NoReview
    /\ review[1].fixed = "False"
    /\ ~evaluated[1].approved
    /\ lastOp.pid \in Registered
    /\ active_projects[lastOp.pid].status = "failed"

\* The remediation re-ran `check` and it succeeded.
Resolved(check, reruns) ==
    \E j \in 1..Len(reruns) : reruns[j].check = check /\ reruns[j].success

\* C19: when evaluate rejects a report, the reviewer task is added to
\* completed_tasks only if the remediation pass re-ran every failing check
\* named in the notes and each succeeded; when a failing check (ruff,
\* bandit or pytest) is not resolved the task is not completed and the phase
\* fails.
C19_CompletedOnlyWhenResolved ==
    [][(ReviewsTask /\ ~evaluated'[1].approved) =>
          LET notes == evaluated'[1].notes
              resolved == \A k \in 1..Len(notes) :
                              Resolved(notes[k], review'[1].reruns)
              completed == active_projects'[cur].completed_tasks
                               # active_projects[cur].completed_tasks
          IN  /\ completed => resolved
              /\ ~resolved => Last(phaseLog') = Phase("test", "failed")]_vars

\* ceil(hours / 8) for hours that are not negative.
CeilDays(hours) == (hours + HoursPerDay - 1) \div HoursPerDay

\* C20: for every Plan returned by PlannerAgent.plan, timeline_days is
\* max(1, ceil(total_estimated_hours / 8)); the 34-hour fallback plan has
\* timeline_days 5.
C20_TimelineIsCeiling ==
    planned # NoPlan =>
        planned[1].timeline_days
            = Max(1, CeilDays(planned[1].total_estimated_hours))

\* The estimates of tasks 1..n of a list, added from the last to the first.
RECURSIVE HoursUpTo(_, _)
HoursUpTo(tasks, n) ==
    IF n = 0 THEN 0 ELSE tasks[n].estimated_hours + HoursUpTo(tasks, n - 1)

\* C21: for every Plan returned by PlannerAgent.plan, total_estimated_hours
\* is the sum of estimated_hours over exactly the tasks of the plan.
C21_TotalIsSumOfTaskHours ==
    planned # NoPlan =>
        planned[1].total_estimated_hours
            = HoursUpTo(planned[1].tasks, Len(planned[1].tasks))

\* plan returned a plan of two tasks or more whose estimates differ.
C21_Witness ==
    /\ lastOp = Returned("plan", NoProject, "ProjectPlan")
    /\ planned # NoPlan
    /\ Len(planned[1].tasks) >= 2
    /\ planned[1].tasks[1].estimated_hours > 0
    /\ planned[1].tasks[2].estimated_hours > planned[1].tasks[1].estimated_hours

PlannerReturned == lastOp.op \in {"plan", "create_project"}

\* C22: whenever the backend's answer to the breakdown prompt is empty or
\* cannot be parsed as a JSON array, the planner returns the canonical
\* fallback: tasks 1..4 for planner, coder, reviewer and doc_agent, with
\* estimates 4, 16, 8 and 6 hours and dependencies [], [1], [2], [3], and
\* total_estimated_hours 34.
C22_FallbackOnUnparsedAnswer ==
    (PlannerReturned /\ ~breakdown.parsed) =>
        /\ planned # NoPlan
        /\ LET tasks == planned[1].tasks
           IN  /\ Len(tasks) = 4
               /\ [i \in 1..4 |-> tasks[i].id] = <<1, 2, 3, 4>>
               /\ [i \in 1..4 |-> tasks[i].agent]
                      = <<"planner", "coder", "reviewer", "doc_agent">>
               /\ [i \in 1..4 |-> tasks[i].estimated_hours] = <<4, 16, 8, 6>>
               /\ [i \in 1..4 |-> tasks[i].dependencies]
                      = << <<>>, <<1>>, <<2>>, <<3>> >>
        /\ planned[1].total_estimated_hours = 34

\* plan returned for an answer that holds no JSON array.
C22_Witness ==
    /\ lastOp = Returned("plan", NoProject, "ProjectPlan")
    /\ ~breakdown.parsed
    /\ planned # NoPlan

\* C23: planning never hard-fails: for every answer of the backend (empty
\* text, malformed JSON, JSON whose task fields are missing or of the wrong
\* type) PlannerAgent.plan, and so create_project, returns a Plan without
\* raising.
C23_PlanningNeverRaises ==
    PlannerReturned => lastOp.result # "TypeError"

\* C24: every Plan produced by create_project contains at least one task,
\* for every answer of the backend (an empty JSON array included).
C24_PlanHasATask ==
    \A p \in DOMAIN project_plans : Len(project_plans[p].tasks) >= 1

\* The ids the task `id` of a plan depends on, directly.
Needs(tasks, id) ==
    UNION {Range(tasks[i].dependencies) : i \in {j \in 1..Len(tasks) : tasks[j].id = id}}

\* The ids it depends on through n dependencies or fewer.
RECURSIVE NeedsWithin(_, _, _)
NeedsWithin(tasks, id, n) ==
    IF n = 0 THEN {}
    ELSE Needs(tasks, id)
             \cup UNION {NeedsWithin(tasks, d, n - 1) : d \in Needs(tasks, id)}

\* C25: in every Plan produced by the planner, each task's dependencies
\* name only ids of tasks of the same plan, and no task depends on itself,
\* directly or through other tasks.
C25_DependenciesWellFounded ==
    planned # NoPlan =>
        LET tasks == planned[1].tasks
        IN  \A i \in 1..Len(tasks) :
                /\ Range(tasks[i].dependencies) \subseteq {tasks[j].id : j \in 1..Len(tasks)}
                /\ tasks[i].id \notin NeedsWithin(tasks, tasks[i].id, Len(tasks))

\* A value JSON can hold as it is: str, int, None, and lists and dicts of
\* such values.
RECURSIVE JsonRepresentable(_)
JsonRepresentable(v) ==
    IF "dict" \in DOMAIN v
    THEN \A k \in DOMAIN v.dict : JsonRepresentable(v.dict[k])
    ELSE IF "list" \in DOMAIN v
    THEN \A i \in 1..Len(v.list) : JsonRepresentable(v.list[i])
    ELSE DOMAIN v \subseteq {"str", "int", "none"}

\* C26: for every project id and every JSON-representable project record,
\* load_project after a save_project of the id that succeeded returns the
\* record as it was passed in, without the injected _metadata key; the
\* latest save of the id is the one that counts.
C26_StorageRoundTrip ==
    \A id \in StorageIds :
        (/\ loaded.project_id = id
         /\ id \in DOMAIN saves
         /\ saves[id].result
         /\ JsonRepresentable([dict |-> saves[id].project_data]))
            => loaded.result = <<Remove(saves[id].project_data, "_metadata")>>

\* load_project returned the list-valued record saved under p1, while p2
\* holds a file too.
C26_Witness ==
    /\ loaded.project_id = "p1"
    /\ "p1" \in DOMAIN saves
    /\ saves["p1"].result
    /\ saves["p1"].project_data = [name |-> [list |-> <<[int |-> 1], [none |-> TRUE]>>]]
    /\ loaded.result = <<saves["p1"].project_data>>
    /\ "p2" \in DOMAIN files

\* The step is the return of a cleanup_project(p) call.
CleanedUp(p) ==
    /\ lastOp' # lastOp
    /\ lastOp'.op = "cleanup_project"
    /\ lastOp'.pid = p

\* Every project but p keeps its Plan and its Status in the step.
OthersUnchanged(p) ==
    /\ DOMAIN active_projects' \ {p} = DOMAIN active_projects \ {p}
    /\ DOMAIN project_plans' \ {p} = DOMAIN project_plans \ {p}
    /\ \A q \in DOMAIN active_projects \ {p} : active_projects'[q] = active_projects[q]
    /\ \A q \in DOMAIN project_plans \ {p} : project_plans'[q] = project_plans[q]

\* C27: cleanup_project(p) succeeds whether p is registered or not and
\* leaves p in neither registry, every other project's Plan and Status as
\* they were; for a project in neither registry get_project_status returns
\* nothing and execute_project and package_project raise not-found.
C27_CleanupRemovesProject ==
    /\ [][\A p \in PairIds :
              CleanedUp(p) =>
                  /\ lastOp'.result = "True"
                  /\ p \notin DOMAIN active_projects'
                  /\ p \notin DOMAIN project_plans'
                  /\ OthersUnchanged(p)]_vars
    /\ [](lastOp.pid \notin DOMAIN active_projects =>
              /\ lastOp.op = "get_project_status" => lastOp.result = "None"
              /\ lastOp.op = "execute_project" => lastOp.result = "ValueError"
              /\ lastOp.op = "package_project"
                     => lastOp.result = "ValueError: not found")

\* p1 has been cleaned up and execute_project(p1) has raised since, while
\* p2 is still registered with its plan, completed.
C27_Witness ==
    /\ lastOp = Returned("execute_project", "p1", "ValueError")
    /\ DOMAIN active_projects = {"p2"}
    /\ DOMAIN project_plans = {"p2"}
    /\ active_projects["p2"].status = "completed"

\* The step belongs to an execute_project(p) call: its entry, one of its
\* phases, its return or its not-found error.
Executes(p) ==
    \/ pc = "idle" /\ pc' # "idle" /\ cur' = p
    \/ pc # "idle" /\ cur = p
    \/ lastOp' # lastOp /\ lastOp' = Returned("execute_project", p, "ValueError")

\* C28: execute_project(p) changes only the Status of p: every Plan, p's
\* own included, and the Status of every other registered project stay as
\* they were, whether the call succeeds or fails.
C28_ExecuteWritesOnlyOwnStatus ==
    [][\A p \in PairIds :
          Executes(p) =>
              /\ project_plans' = project_plans
              /\ DOMAIN active_projects' = DOMAIN active_projects
              /\ \A q \in DOMAIN active_projects \ {p} :
                     active_projects'[q] = active_projects[q]]_vars

\* An execute_project(p1) call has returned (True or False) with p2
\* registered and still in planning.
C28_Witness ==
    /\ lastOp.op = "execute_project"
    /\ lastOp.pid = "p1"
    /\ lastOp.result \in {"True", "False"}
    /\ "p2" \in DOMAIN active_projects
    /\ active_projects["p2"].status = "planning"
    /\ active_projects["p1"].status \in {"completed", "failed"}

\* The first execute_project(p) call since p was created with the fallback
\* plan has returned.
FreshFallbackRun(p) ==
    /\ p \in DOMAIN active_projects
    /\ project_plans[p].tasks = FallbackTasks
    /\ lastOp.op = "execute_project"
    /\ lastOp.pid = p
    /\ lastOp.result \in {"True", "False"}
    /\ calls[p] = 1
    /\ callFrom = "planning"

\* C29: for a freshly created project holding the fallback plan, one
\* execute_project call in which structure generation, code writing,
\* review and documentation succeed returns True with completed_tasks
\* 1, 2, 3, 4 in that order, progress_percentage 100 and status completed;
\* the call returns False only when a phase failed.
C29_FallbackPlanRunsToCompletion ==
    \A p \in SpecIds :
        FreshFallbackRun(p) =>
            IF lastOp.result = "True"
            THEN /\ active_projects[p].completed_tasks = <<1, 2, 3, 4>>
                 /\ active_projects[p].progress_percentage.n
                        = active_projects[p].progress_percentage.d
                 /\ active_projects[p].progress_percentage.n > 0
                 /\ active_projects[p].status = "completed"
            ELSE Last(phaseLog).result = "failed"

\* Such a call has returned True.
C29_Witness ==
    /\ FreshFallbackRun("p1")
    /\ lastOp.result = "True"
    /\ phaseLog = <<Phase("setup", "ok"), Phase("implement", "ok"),
                    Phase("test", "ok"), Phase("doc", "ok")>>

\* C30: failed_tasks and warnings are empty in every reachable state: no
\* operation of the project manager writes to them, and a failure of a
\* task dispatch or of the tracker is recorded in errors only.
C30_FailedTasksAndWarningsStayEmpty ==
    \A p \in DOMAIN active_projects :
        /\ active_projects[p].failed_tasks = <<>>
        /\ active_projects[p].warnings = <<>>

\* A call has failed on a project whose repository could not be created:
\* both failures are in errors.
C30_Witness ==
    /\ "p1" \in DOMAIN active_projects
    /\ active_projects["p1"].status = "failed"
    /\ Len(active_projects["p1"].errors) >= 2
    /\ use_github

====
